---- MODULE Spec2Model ----
(***************************************************************************)
(* AutoPagi: browser pipeline (main.py, pagi_login.py) that logs in to the *)
(* bank site, clicks the electricity-company row while a response listener *)
(* is armed, parses the charges table of the intercepted response and      *)
(* reconciles the extracted rows into the master CSV file.                 *)
(*                                                                         *)
(* Hebrew string literals of the source are transliterated:                *)
(*   "mispar harshaa" = authorization number column (main.py:367)          *)
(*   "mosad"          = institution column           (main.py:328)          *)
(*   "lo nimtsa"      = the "not found" sentinel     (main.py:339)          *)
(***************************************************************************)
EXTENDS Integers, Sequences, FiniteSets, TLC

(***************************************************************************)
(* Bounds of the model                                                     *)
(***************************************************************************)
MaxRuns == 2

(***************************************************************************)
(* Text.  Fields are strings; Chars gives the characters of the strings    *)
(* that the code inspects character by character (strptime, [-9:]).        *)
(***************************************************************************)
AUTH_HEADER == "mispar harshaa"
INSTITUTION_HEADER == "mosad"
NOT_FOUND == "lo nimtsa"

Chars(s) ==
  CASE s = "01/01/2024" -> <<"0","1","/","0","1","/","2","0","2","4">>
    [] s = "05/02/2024" -> <<"0","5","/","0","2","/","2","0","2","4">>
    [] s = "03/02/2024" -> <<"0","3","/","0","2","/","2","0","2","4">>
    [] s = "3/2/2024" -> <<"3","/","2","/","2","0","2","4">>
    [] s = "31/02/2024" -> <<"3","1","/","0","2","/","2","0","2","4">>
    [] s = "total" -> <<"t","o","t","a","l">>
    [] s = "IEC 123456789" -> <<"I","E","C"," ","1","2","3","4","5","6","7","8","9">>
    [] s = "IEC 987654321" -> <<"I","E","C"," ","9","8","7","6","5","4","3","2","1">>
    [] s = "123456789" -> <<"1","2","3","4","5","6","7","8","9">>
    [] s = "IEC" -> <<"I","E","C">>
    [] s = "A100" -> <<"A","1","0","0">>
    [] s = "B200" -> <<"B","2","0","0">>
    [] s = "C300" -> <<"C","3","0","0">>
    [] s = "lo nimtsa" -> <<"l","o"," ","n","i","m","t","s","a">>
    [] s = "Beit Sefer" -> <<"B","e","i","t"," ","S","e","f","e","r">>
    [] OTHER -> <<>>

DigitVal(c) ==
  CASE c = "0" -> 0 [] c = "1" -> 1 [] c = "2" -> 2 [] c = "3" -> 3
    [] c = "4" -> 4 [] c = "5" -> 5 [] c = "6" -> 6 [] c = "7" -> 7
    [] c = "8" -> 8 [] c = "9" -> 9 [] OTHER -> -1

IsDigit(c) == DigitVal(c) >= 0

(* The pieces of cs between the occurrences of sep (str.split semantics). *)
RECURSIVE SplitOn(_, _, _, _)
SplitOn(cs, sep, cur, acc) ==
  IF cs = <<>> THEN Append(acc, cur)
  ELSE IF Head(cs) = sep THEN SplitOn(Tail(cs), sep, <<>>, Append(acc, cur))
  ELSE SplitOn(Tail(cs), sep, Append(cur, Head(cs)), acc)

RECURSIVE NumVal(_, _)
NumVal(cs, acc) ==
  IF cs = <<>> THEN acc ELSE NumVal(Tail(cs), acc * 10 + DigitVal(Head(cs)))

AllDigits(cs) == \A i \in 1..Len(cs) : IsDigit(cs[i])

IsLeap(y) == (y % 4 = 0 /\ y % 100 # 0) \/ y % 400 = 0

DaysInMonth(m, y) ==
  IF m = 2 THEN (IF IsLeap(y) THEN 29 ELSE 28)
  ELSE IF m \in {4, 6, 9, 11} THEN 30 ELSE 31

(* %d : 3[0-1]|[1-2]\d|0[1-9]|[1-9] *)
MatchesDay(cs) ==
  /\ Len(cs) \in {1, 2}
  /\ AllDigits(cs)
  /\ NumVal(cs, 0) \in 1..31

(* %m : 1[0-2]|0[1-9]|[1-9] *)
MatchesMonth(cs) ==
  /\ Len(cs) \in {1, 2}
  /\ AllDigits(cs)
  /\ NumVal(cs, 0) \in 1..12

(* %Y : \d\d\d\d, and datetime requires 1 <= year *)
MatchesYear(cs) ==
  /\ Len(cs) = 4
  /\ AllDigits(cs)
  /\ NumVal(cs, 0) >= 1

(* datetime.strptime(s, "%d/%m/%Y"): the parsed date as the ordinal        *)
(* y*10000 + m*100 + d (order-preserving), or -1 where strptime raises     *)
(* ValueError.                                                             *)
strptime(s) ==
  LET parts == SplitOn(Chars(s), "/", <<>>, <<>>) IN
  IF Len(parts) # 3 THEN -1
  ELSE IF ~(MatchesDay(parts[1]) /\ MatchesMonth(parts[2]) /\ MatchesYear(parts[3])) THEN -1
  ELSE LET d == NumVal(parts[1], 0)
           m == NumVal(parts[2], 0)
           y == NumVal(parts[3], 0)
       IN IF d > DaysInMonth(m, y) THEN -1 ELSE y * 10000 + m * 100 + d

(* business_details[-9:] : the last nine characters, or all of them. *)
Last9(s) ==
  LET cs == Chars(s) IN
  IF Len(cs) <= 9 THEN cs ELSE SubSeq(cs, Len(cs) - 8, Len(cs))


(***************************************************************************)
(* Extraction of the charges table (main.py:324-348)                       *)
(***************************************************************************)
EmptyMap == [k \in {} |-> ""]

(* The map get_institution_map returns when the sheet could be read:       *)
(* contract number (its characters) -> institution name.                   *)
InstMap1 == [k \in {Chars("123456789")} |-> "Beit Sefer"]

(* Variant: the lookup defaults to the empty string. *)
MapGetEmptyDefault(m, k, default) == IF k \in DOMAIN m THEN m[k] ELSE ""

(* institution_map.get(contract_number, "lo nimtsa") *)
MapGet(m, k, default) == IF k \in DOMAIN m THEN m[k] ELSE default

ExtractHeaders(ths, m) ==
  IF m # EmptyMap THEN Append(ths, INSTITUTION_HEADER) ELSE ths

InstitutionName(row_data, m) ==
  IF Len(row_data) > 2 THEN MapGet(m, Last9(row_data[3]), NOT_FOUND)
  ELSE NOT_FOUND

ExtractRow(cells, m) ==
  IF m # EmptyMap THEN Append(cells, InstitutionName(cells, m)) ELSE cells

ExtractRows(trs, m) == [i \in 1..Len(trs) |-> ExtractRow(trs[i], m)]

(***************************************************************************)
(* Reconciliation (main.py:361-394)                                        *)
(***************************************************************************)
(* os.path.exists(master_csv_path) is false.  A file the program wrote has  *)
(* at least its header line, so the empty sequence stands for no file.      *)
NoFile == <<>>

(* csv.writer: one line per row, the header line first. *)
CsvWrite(header, rows) == <<header>> \o rows

(* csv.reader after next(reader): the lines after the header line. *)
CsvReadRows(file) == Tail(file)

(* headers.index(name): position of the first occurrence (1-based here),   *)
(* 0 where list.index raises ValueError.                                   *)
IndexOf(seq, x) ==
  IF \E i \in 1..Len(seq) : seq[i] = x
  THEN CHOOSE i \in 1..Len(seq) : seq[i] = x /\ \A j \in 1..(i - 1) : seq[j] # x
  ELSE 0

(* Variant: setdefault, the first row of a key is kept. *)
DictPutKeepFirst(d, row, idx) ==
  IF Len(row) < idx THEN d
  ELSE IF \E i \in 1..Len(d) : d[i][idx] = row[idx] THEN d
       ELSE Append(d, row)

(* combined_data[row[auth_num_index]] = row, on a dict kept as the         *)
(* sequence of its values in insertion order: an existing key keeps its    *)
(* position, a new key goes to the end.  Rows without the column are       *)
(* skipped (the guard len(row) > auth_num_index).                          *)
DictPut(d, row, idx) ==
  IF Len(row) < idx THEN d
  ELSE IF \E i \in 1..Len(d) : d[i][idx] = row[idx]
       THEN [i \in 1..Len(d) |-> IF d[i][idx] = row[idx] THEN row ELSE d[i]]
       ELSE Append(d, row)

RECURSIVE DictPutAll(_, _, _)
DictPutAll(d, rows, idx) ==
  IF rows = <<>> THEN d
  ELSE DictPutAll(DictPut(d, Head(rows), idx), Tail(rows), idx)

LoadMaster(file, idx) ==
  IF file = NoFile THEN <<>> ELSE DictPutAll(<<>>, CsvReadRows(file), idx)

CombinedData(file, rows, idx) == DictPutAll(LoadMaster(file, idx), rows, idx)

(* Variant: ascending sort reversed afterwards, rows of one date swap. *)
RECURSIVE InsertDescTiesFirst(_, _)
InsertDescTiesFirst(sorted, r) ==
  IF sorted = <<>> THEN <<r>>
  ELSE IF strptime(Head(sorted)[1]) > strptime(r[1])
       THEN <<Head(sorted)>> \o InsertDescTiesFirst(Tail(sorted), r)
       ELSE <<r>> \o sorted

(* Variant: reverse=True left out, oldest first. *)
RECURSIVE InsertAsc(_, _)
InsertAsc(sorted, r) ==
  IF sorted = <<>> THEN <<r>>
  ELSE IF strptime(Head(sorted)[1]) <= strptime(r[1])
       THEN <<Head(sorted)>> \o InsertAsc(Tail(sorted), r)
       ELSE <<r>> \o sorted

(* sorted(..., key=strptime(x[0]), reverse=True) is stable: a row goes     *)
(* behind every row whose date is not older than its own.                  *)
RECURSIVE InsertDesc(_, _)
InsertDesc(sorted, r) ==
  IF sorted = <<>> THEN <<r>>
  ELSE IF strptime(Head(sorted)[1]) >= strptime(r[1])
       THEN <<Head(sorted)>> \o InsertDesc(Tail(sorted), r)
       ELSE <<r>> \o sorted

RECURSIVE SortedData(_)
SortedData(rows) ==
  IF rows = <<>> THEN <<>>
  ELSE InsertDesc(SortedData(SubSeq(rows, 1, Len(rows) - 1)), rows[Len(rows)])

(* Variant: unparseable dates are tolerated and sort last. *)
DateParseFailsNever(rows) == FALSE

DateParseFails(rows) == \E i \in 1..Len(rows) : strptime(rows[i][1]) = -1

(* Variant: the master file is opened for writing before the key column   *)
(* is looked up.                                                           *)
ReconcileTruncatesFirst(file, hdrs, rows) ==
  LET idx == IndexOf(hdrs, AUTH_HEADER)
      combined == CombinedData(file, rows, idx)
  IN IF idx = 0 THEN [raised |-> "MissingReconciliationKey", master |-> CsvWrite(hdrs, <<>>)]
     ELSE IF DateParseFails(combined)
          THEN [raised |-> "DateParseFailure", master |-> file]
          ELSE [raised |-> "none", master |-> CsvWrite(hdrs, SortedData(combined))]

(* Lines 361-394 as a whole: what is raised and what the master file holds *)
(* afterwards.                                                             *)
Reconcile(file, hdrs, rows) ==
  LET idx == IndexOf(hdrs, AUTH_HEADER)
      combined == CombinedData(file, rows, idx)
  IN IF idx = 0 THEN [raised |-> "MissingReconciliationKey", master |-> file]
     ELSE IF DateParseFails(combined)
          THEN [raised |-> "DateParseFailure", master |-> file]
          ELSE [raised |-> "none", master |-> CsvWrite(hdrs, SortedData(combined))]


(***************************************************************************)
(* What the site can serve: header cells and body rows of table Chiuvim    *)
(***************************************************************************)
HdrStd == <<"taarich", "mispar harshaa", "pratei beit haesek">>
HdrNoAuth == <<"taarich", "schum", "pratei beit haesek">>

RowA == <<"01/01/2024", "A100", "IEC 123456789">>
RowB == <<"05/02/2024", "A100", "IEC 987654321">>
RowC == <<"03/02/2024", "B200", "123456789">>
(* a row of the same day as RowC, written without leading zeros, two cells *)
RowF == <<"3/2/2024", "C300">>
(* a day that does not exist *)
RowE == <<"31/02/2024", "B200", "IEC">>
(* a totals line: a single cell *)
RowD == <<"total">>
(* a row of a table that has an amount where the authorization number is   *)
(* expected                                                                *)
RowX == <<"01/01/2024", "150.00", "IEC 123456789">>

(* tbody contents the site serves under the standard header *)
StdTables ==
  { <<>>,
    <<RowA>>, <<RowC>>, <<RowD>>, <<RowE>>,
    <<RowB, RowC>>, <<RowC, RowB>>,
    <<RowC, RowF>>, <<RowF, RowC>>,
    <<RowA, RowB>>, <<RowB, RowA>>,
    <<RowA, RowE>>, <<RowC, RowE>>, <<RowE, RowC>>,
    <<RowD, RowC>>, <<RowB, RowF>> }

(* thead cells and tbody rows of the table in the response *)
SiteTables ==
  { [ths |-> HdrStd, trs |-> t] : t \in StdTables }
    \cup { [ths |-> HdrNoAuth, trs |-> t] : t \in { <<>>, <<RowX>> } }

(***************************************************************************)
(* State                                                                   *)
(***************************************************************************)
VARIABLES
  pc,              \* position in main / login_to_pagi / click_row_by_text
  browser,         \* "none", "open", "closed"
  closes,          \* number of browser.close() calls of the run
  exc,             \* exception in flight: "none", "timeout", "error"
  reason,          \* the failure point that raised it
  logged,          \* what the top level logged: "none", "timeout", "error", "halt", "success"
  trigger,         \* index into login_triggers
  attempt,         \* attempt of submit_login
  target,          \* what each click strategy does on the located element
  attempts,        \* strategies attempted so far by click_row_by_text
  clickResult,     \* "none", "returned", "raised"
  listener,        \* "none", "armed", "captured", "expired", "cancelled"
  registered,      \* the site's click handler ran and issued the request
  responded,       \* the matching response completed
  status,          \* its status code
  table,           \* soup.find("table", id="Chiuvim"): "none", "found", "missing"
  skip,            \* args.skip_institution_mapping
  institution_map,
  tbody,           \* cell texts of the tbody rows, before the institution column
  headers,
  all_rows_data,
  master,          \* all_charges_report.csv
  snapshots,       \* charges_report_<timestamp>.csv, by timestamp
  clock,           \* number of runs started
  masterBefore,    \* the master file when the run started
  run_timestamp    \* datetime.now() of main.py:353, to the second; 0: not taken

ctl == <<pc, browser, closes, exc, reason, logged>>
loginv == <<trigger, attempt>>
clickv == <<target, attempts, clickResult>>
netv == <<listener, registered, responded, status>>
datav == <<table, institution_map, tbody, headers, all_rows_data>>
disk == <<master, snapshots>>
runv == <<skip, clock, masterBefore, run_timestamp>>
vars == <<ctl, loginv, clickv, netv, datav, disk, runv>>

NoTarget == [i \in 1..3 |-> "none"]

Init ==
  /\ pc = "idle"
  /\ browser = "none"
  /\ closes = 0
  /\ exc = "none"
  /\ reason = "none"
  /\ logged = "none"
  /\ trigger = 0
  /\ attempt = 0
  /\ target = NoTarget
  /\ attempts = <<>>
  /\ clickResult = "none"
  /\ listener = "none"
  /\ registered = FALSE
  /\ responded = FALSE
  /\ status = 0
  /\ table = "none"
  /\ skip = FALSE
  /\ institution_map = EmptyMap
  /\ tbody = <<>>
  /\ headers = <<>>
  /\ all_rows_data = <<>>
  /\ master = NoFile
  /\ snapshots = EmptyMap
  /\ clock = 0
  /\ masterBefore = NoFile
  /\ run_timestamp = 0


(***************************************************************************)
(* Control helpers                                                         *)
(***************************************************************************)
Goto(p) == pc' = p /\ UNCHANGED <<browser, closes, exc, reason, logged>>

(* An exception raised inside the try block of main (main.py:251-398). *)
Raise(kind, why) ==
  /\ pc' = "except"
  /\ exc' = kind
  /\ reason' = why
  /\ UNCHANGED <<browser, closes, logged>>

(***************************************************************************)
(* main: start, browser launch (main.py:229-249)                           *)
(***************************************************************************)
StartRun ==
  /\ pc = "idle"
  /\ clock < MaxRuns
  /\ clock' = clock + 1
  /\ masterBefore' = master
  /\ Goto("launch")
  /\ UNCHANGED <<skip, run_timestamp, loginv, clickv, netv, datav, disk>>

(* p.chromium.launch: outside the try block, a failure leaves main. *)
Launch ==
  /\ pc = "launch"
  /\ \/ /\ browser' = "open"
        /\ pc' = "new_page"
        /\ UNCHANGED <<exc, reason>>
     \/ /\ pc' = "done"
        /\ exc' = "error"
        /\ reason' = "BrowserLaunchFailed"
        /\ UNCHANGED browser
  /\ UNCHANGED <<closes, logged, loginv, clickv, netv, datav, disk, runv>>

(* browser.new_context / context.new_page: also outside the try block. *)
NewPage ==
  /\ pc = "new_page"
  /\ \/ /\ pc' = "login_goto"
        /\ UNCHANGED <<exc, reason>>
     \/ /\ pc' = "done"
        /\ exc' = "error"
        /\ reason' = "NewPageFailed"
  /\ UNCHANGED <<browser, closes, logged, loginv, clickv, netv, datav, disk, runv>>

(***************************************************************************)
(* pagi_login.py                                                           *)
(***************************************************************************)
NumTriggers == 5
MaxSubmitAttempts == 5

(* open_login_modal: page.goto and the settle delay (pagi_login.py:73-74) *)
LoginGoto ==
  /\ pc = "login_goto"
  /\ \/ /\ Goto("probe")
        /\ trigger' = 1
     \/ /\ \E k \in {"timeout", "error"} : Raise(k, "LoginPageNavigation")
        /\ UNCHANGED trigger
  /\ UNCHANGED <<attempt, clickv, netv, datav, disk, runv>>

(* Variant: a for loop without its else clause. *)
ProbeTriggerFallsThrough ==
  /\ pc = "probe"
  /\ IF trigger > NumTriggers
     THEN /\ Goto("wait_loginFrame")
          /\ trigger' = 0
     ELSE \/ /\ trigger' = trigger + 1
             /\ Goto("probe")
          \/ /\ Goto("wait_loginFrame")
             /\ trigger' = 0
  /\ UNCHANGED <<attempt, clickv, netv, datav, disk, runv>>

(* open_login_modal: the for/else over login_triggers (pagi_login.py:84-99) *)
ProbeTrigger ==
  /\ pc = "probe"
  /\ IF trigger > NumTriggers
     THEN /\ Raise("timeout", "LoginTriggerNotFound")
          /\ trigger' = 0
     ELSE \/ \* wait_for or click timed out: continue with the next selector
             /\ trigger' = trigger + 1
             /\ Goto("probe")
          \/ /\ Goto("wait_loginFrame")
             /\ trigger' = 0
          \/ /\ Raise("error", "LoginTriggerError")
             /\ trigger' = 0
  /\ UNCHANGED <<attempt, clickv, netv, datav, disk, runv>>

(* open_login_modal: wait for #loginFrame (pagi_login.py:103-108) *)
WaitLoginFrame ==
  /\ pc = "wait_loginFrame"
  /\ \/ Goto("fill_credentials")
     \/ Raise("timeout", "LoginFormNotFound")
  /\ UNCHANGED <<loginv, clickv, netv, datav, disk, runv>>

(* fill_credentials (pagi_login.py:28-33) *)
FillCredentials ==
  /\ pc = "fill_credentials"
  /\ \/ /\ Goto("submit")
        /\ attempt' = 0
     \/ /\ \E k \in {"timeout", "error"} : Raise(k, "FillCredentialsFailed")
        /\ UNCHANGED attempt
  /\ UNCHANGED <<trigger, clickv, netv, datav, disk, runv>>

(* Variant: running out of attempts returns as if the click had worked. *)
SubmitLoginReturnsOnExhaustion ==
  /\ pc = "submit"
  /\ IF attempt >= MaxSubmitAttempts
     THEN /\ Goto("wait_for_url")
          /\ attempt' = 0
     ELSE \/ /\ attempt' = attempt + 1
             /\ Goto("submit")
          \/ /\ Goto("wait_for_url")
             /\ attempt' = 0
  /\ UNCHANGED <<trigger, clickv, netv, datav, disk, runv>>

(* submit_login: the retry loop (pagi_login.py:36-62) *)
SubmitLogin ==
  /\ pc = "submit"
  /\ IF attempt >= MaxSubmitAttempts
     THEN /\ Raise("timeout", "LoginSubmitFailed")
          /\ attempt' = 0
     ELSE \/ \* not visible, disabled, hover or click timed out: pause, retry
             /\ attempt' = attempt + 1
             /\ Goto("submit")
          \/ /\ Goto("wait_for_url")
             /\ attempt' = 0
          \/ /\ Raise("error", "LoginSubmitError")
             /\ attempt' = 0
  /\ UNCHANGED <<trigger, clickv, netv, datav, disk, runv>>

(***************************************************************************)
(* main: navigation to the previous month's table (main.py:257-280)        *)
(***************************************************************************)
(* Variant: after the submit click the run goes straight to submitTab. *)
NavStepsSkipSummary ==
  { [at |-> "wait_for_url", next |-> "submitTab",
     fails |-> {"timeout"}, why |-> "PostLoginNavigationTimeout"],
    [at |-> "submitTab", next |-> "wait_dataTable",
     fails |-> {"timeout", "error"}, why |-> "SubmitTabFailed"],
    [at |-> "wait_dataTable", next |-> "arm",
     fails |-> {"timeout"}, why |-> "PreviousMonthTableTimeout"] }

NavSteps ==
  { [at |-> "wait_for_url", next |-> "goto_transactions",
     fails |-> {"timeout"}, why |-> "PostLoginNavigationTimeout"],
    [at |-> "goto_transactions", next |-> "wait_ulTabs",
     fails |-> {"timeout", "error"}, why |-> "TransactionsNavigation"],
    [at |-> "wait_ulTabs", next |-> "submitTab",
     fails |-> {"timeout"}, why |-> "TabBarTimeout"],
    [at |-> "submitTab", next |-> "wait_dataTable",
     fails |-> {"timeout", "error"}, why |-> "SubmitTabFailed"],
    [at |-> "wait_dataTable", next |-> "arm",
     fails |-> {"timeout"}, why |-> "PreviousMonthTableTimeout"] }

Navigate ==
  /\ \E st \in NavSteps :
       /\ pc = st.at
       /\ \/ Goto(st.next)
          \/ \E k \in st.fails : Raise(k, st.why)
  /\ UNCHANGED <<loginv, clickv, netv, datav, disk, runv>>


(***************************************************************************)
(* main: the armed listener and the hybrid click (main.py:284-300, 79-138) *)
(***************************************************************************)
Outcomes == {"ok", "noeffect", "timeout", "error"}
Completes(o) == o \in {"ok", "noeffect"}
Targets == [1..3 -> Outcomes]

(* Variant: the expectation is not installed before the click. *)
ArmAfterClick ==
  /\ pc = "arm"
  /\ Goto("click_locate")
  /\ UNCHANGED <<listener, registered, responded, status, loginv, clickv, datav, disk, runv>>

(* page.expect_response(...) entered: the waiter and its timer start. *)
Arm ==
  /\ pc = "arm"
  /\ listener' = "armed"
  /\ Goto("click_locate")
  /\ UNCHANGED <<registered, responded, status, loginv, clickv, datav, disk, runv>>

(* An exception leaving the body of the async with: a waiter still pending *)
(* is cancelled and the exception goes on to main's handlers.              *)
BodyRaises(kind, why) ==
  /\ Raise(kind, why)
  /\ clickResult' = "raised"
  /\ listener' = IF listener = "armed" THEN "cancelled" ELSE listener

(* click_row_by_text up to the first click: the three wait_for calls, the  *)
(* settle delay and scroll_into_view_if_needed (main.py:92-115).           *)
ClickLocate ==
  /\ pc = "click_locate"
  /\ \/ /\ \E t \in Targets : target' = t
        /\ Goto("click_s1")
        /\ UNCHANGED <<clickResult, listener>>
     \/ /\ \E k \in {"timeout", "error"} : BodyRaises(k, "ClickLocateFailed")
        /\ UNCHANGED target
  /\ UNCHANGED <<attempts, registered, responded, status, loginv, datav, disk, runv>>

(* Attempt 1: forceful click inside try/except (main.py:117-125) *)
ClickStep1 ==
  /\ pc = "click_s1"
  /\ attempts' = Append(attempts, 1)
  /\ IF Completes(target[1])
     THEN /\ registered' = (registered \/ target[1] = "ok")
          /\ clickResult' = "returned"
          /\ Goto("join")
     ELSE /\ Goto("click_s2")
          /\ UNCHANGED <<registered, clickResult>>
  /\ UNCHANGED <<target, listener, responded, status, loginv, datav, disk, runv>>

(* Attempt 2: dispatch_event and the 500 ms pause (main.py:127-130) *)
ClickStep2 ==
  /\ pc = "click_s2"
  /\ attempts' = Append(attempts, 2)
  /\ IF Completes(target[2])
     THEN /\ registered' = (registered \/ target[2] = "ok")
          /\ Goto("click_s3")
          /\ UNCHANGED <<clickResult, listener>>
     ELSE /\ BodyRaises(target[2], "ClickDispatchFailed")
          /\ UNCHANGED registered
  /\ UNCHANGED <<target, responded, status, loginv, datav, disk, runv>>

(* Attempt 3: frame_locator.evaluate (main.py:132-138) *)
ClickStep3 ==
  /\ pc = "click_s3"
  /\ attempts' = Append(attempts, 3)
  /\ IF Completes(target[3])
     THEN /\ registered' = (registered \/ target[3] = "ok")
          /\ clickResult' = "returned"
          /\ Goto("join")
          /\ UNCHANGED listener
     ELSE /\ BodyRaises(target[3], "ClickEvaluateFailed")
          /\ UNCHANGED registered
  /\ UNCHANGED <<target, responded, status, loginv, datav, disk, runv>>

InClickOrJoin == pc \in {"click_locate", "click_s1", "click_s2", "click_s3", "join"}

(* The site answers the request the click issued; an armed waiter whose    *)
(* predicate matches takes the response.                                   *)
ResponseArrives ==
  /\ InClickOrJoin
  /\ registered
  /\ ~responded
  /\ responded' = TRUE
  /\ IF listener = "armed"
     THEN /\ listener' = "captured"
          /\ \E code \in {200, 500} : status' = code
     ELSE UNCHANGED <<listener, status>>
  /\ UNCHANGED <<ctl, registered, loginv, clickv, datav, disk, runv>>

(* The 20 s timer of expect_response fires (main.py:289). *)
ListenerTimeout ==
  /\ InClickOrJoin
  /\ listener = "armed"
  /\ listener' = "expired"
  /\ UNCHANGED <<ctl, registered, responded, status, loginv, clickv, datav, disk, runv>>

(* Variant: the waiter's timeout is swallowed and the run goes on. *)
JoinIgnoresTimeout ==
  /\ pc = "join"
  /\ listener \in {"captured", "expired"}
  /\ IF listener = "captured"
     THEN /\ Goto("check_status")
          /\ UNCHANGED status
     ELSE /\ Goto("check_status")
          /\ status' = 200
  /\ target' = NoTarget
  /\ attempts' = <<>>
  /\ UNCHANGED <<clickResult, listener, registered, responded, loginv, datav, disk, runv>>

(* Leaving the async with and awaiting response_info.value                 *)
(* (main.py:290, 300): waits for the waiter's outcome.                     *)
Join ==
  /\ pc = "join"
  /\ listener \in {"captured", "expired"}
  /\ IF listener = "captured"
     THEN Goto("check_status")
     ELSE Raise("timeout", "ResponseTimeout")
  /\ target' = NoTarget
  /\ attempts' = <<>>
  /\ UNCHANGED <<clickResult, netv, loginv, datav, disk, runv>>

(* main.py:301-302 *)
CheckStatus ==
  /\ pc = "check_status"
  /\ IF status # 200
     THEN Raise("error", "UnexpectedResponseStatus")
     ELSE Goto("parse")
  /\ UNCHANGED <<loginv, clickv, netv, datav, disk, runv>>

(* response.text(), BeautifulSoup, soup.find (main.py:305-313) *)
ParseResponse ==
  /\ pc = "parse"
  /\ \/ /\ table' = "found"
        /\ Goto("institution_map")
     \/ /\ table' = "missing"
        /\ Raise("error", "ExtractionTableNotFound")
     \/ /\ UNCHANGED table
        /\ Raise("error", "ResponseBodyUnavailable")
  /\ UNCHANGED <<institution_map, tbody, headers, all_rows_data, loginv, clickv, netv, disk, runv>>


(***************************************************************************)
(* main: institution map, extraction, snapshot, reconciliation             *)
(* (main.py:315-398)                                                       *)
(***************************************************************************)
(* main.py:315-316: institution_map = {} and the test of the opt-out flag. *)
(* args.skip_institution_mapping is a command-line flag of the run; this   *)
(* is the only place that reads it.                                        *)
FetchInstitutionMap ==
  /\ pc = "institution_map"
  /\ \E s \in BOOLEAN :
       /\ skip' = s
       /\ Goto(IF s THEN "extract" ELSE "get_institution_map")
  /\ institution_map' = EmptyMap
  /\ UNCHANGED <<table, tbody, headers, all_rows_data, loginv, clickv, netv, disk, clock, masterBefore, run_timestamp>>

(* Variant: an empty map does not stop the run. *)
GetInstitutionMapNoHalt ==
  /\ pc = "get_institution_map"
  /\ \E m \in {EmptyMap, InstMap1} : institution_map' = m
  /\ Goto("extract")
  /\ UNCHANGED <<table, tbody, headers, all_rows_data, loginv, clickv, netv, disk, runv>>

(* main.py:318-323: the call of get_institution_map, which returns {} on   *)
(* any failure (main.py:180-227); with an empty map main logs an error and *)
(* returns.                                                                *)
GetInstitutionMap ==
  /\ pc = "get_institution_map"
  /\ \E m \in {EmptyMap, InstMap1} :
       /\ institution_map' = m
       /\ IF m = EmptyMap
          THEN /\ pc' = "finally"
               /\ logged' = "halt"
               /\ UNCHANGED <<browser, closes, exc, reason>>
          ELSE Goto("extract")
  /\ UNCHANGED <<table, tbody, headers, all_rows_data, loginv, clickv, netv, disk, runv>>

(* main.py:324-348 *)
Extract ==
  /\ pc = "extract"
  /\ \E t \in SiteTables :
       /\ tbody' = t.trs
       /\ headers' = ExtractHeaders(t.ths, institution_map)
       /\ all_rows_data' = ExtractRows(t.trs, institution_map)
  /\ Goto("snapshot")
  /\ UNCHANGED <<table, institution_map, loginv, clickv, netv, disk, runv>>

(* main.py:350-359.  The file name is the local wall-clock time formatted  *)
(* to the second and the file is opened with mode "w".  ts = clock is a    *)
(* name no earlier run has used; ts < clock is the name an earlier run     *)
(* got (the local time repeats at the end of daylight saving time or when  *)
(* the clock is set back).                                                 *)
WriteSnapshot ==
  /\ pc = "snapshot"
  /\ \E ts \in 1..clock :
       /\ run_timestamp' = ts
       /\ snapshots' = [t \in DOMAIN snapshots \cup {ts} |->
                          IF t = ts THEN CsvWrite(headers, all_rows_data)
                          ELSE snapshots[t]]
  /\ Goto("reconcile")
  /\ UNCHANGED <<master, loginv, clickv, netv, datav, skip, clock, masterBefore>>

(* main.py:361-394 *)
ReconcileMaster ==
  /\ pc = "reconcile"
  /\ LET r == Reconcile(master, headers, all_rows_data) IN
       IF r.raised # "none"
       THEN /\ Raise("error", r.raised)
            /\ master' = r.master
       ELSE /\ master' = r.master
            /\ Goto("success")
  /\ UNCHANGED <<snapshots, loginv, clickv, netv, datav, runv>>

(* main.py:396-398 *)
Success ==
  /\ pc = "success"
  /\ pc' = "finally"
  /\ logged' = "success"
  /\ UNCHANGED <<browser, closes, exc, reason, loginv, clickv, netv, datav, disk, runv>>

(* Variant: the handler starts the pipeline again. *)
ExceptRetriesPipeline ==
  /\ pc = "except"
  /\ pc' = "login_goto"
  /\ logged' = exc
  /\ exc' = "none"
  /\ target' = NoTarget
  /\ attempts' = <<>>
  /\ UNCHANGED <<clickResult, browser, closes, reason, loginv, netv, datav, disk, runv>>

(* What the top level reports for an exception of each class: the clause  *)
(* for PlaywrightTimeoutError logs "A timeout occurred", the clause for    *)
(* Exception logs "An unexpected error occurred" (main.py:400-404).  The   *)
(* exception's own message is free text appended to it.                    *)
TopLevelReport(kind) == IF kind = "timeout" THEN "timeout" ELSE "error"

(* The exception class raised at each named failure point:                 *)
(* PlaywrightTimeoutError ("timeout") or another Exception ("error").      *)
ExceptionAt ==
  [p \in {"LoginTriggerNotFound", "LoginFormNotFound", "LoginSubmitFailed",
          "PostLoginNavigationTimeout", "TabBarTimeout",
          "PreviousMonthTableTimeout", "ResponseTimeout"} |-> "timeout"]
  @@ [p \in {"UnexpectedResponseStatus", "ExtractionTableNotFound",
             "MissingReconciliationKey", "DateParseFailure"} |-> "error"]

(* The two except clauses of main (main.py:400-404). *)
Except ==
  /\ pc = "except"
  /\ pc' = "finally"
  /\ logged' = TopLevelReport(exc)
  /\ exc' = "none"
  /\ target' = NoTarget
  /\ attempts' = <<>>
  /\ UNCHANGED <<clickResult, browser, closes, reason, loginv, netv, datav, disk, runv>>

(* finally: browser.close() (main.py:405-407) *)
Finally ==
  /\ pc = "finally"
  /\ pc' = "done"
  /\ browser' = "closed"
  /\ closes' = closes + 1
  /\ UNCHANGED <<exc, reason, logged, loginv, clickv, netv, datav, disk, runv>>

(* The process ends; only the files stay. *)
Exit ==
  /\ pc = "done"
  /\ pc' = "idle"
  /\ browser' = "none"
  /\ closes' = 0
  /\ exc' = "none"
  /\ reason' = "none"
  /\ logged' = "none"
  /\ trigger' = 0
  /\ attempt' = 0
  /\ target' = NoTarget
  /\ attempts' = <<>>
  /\ clickResult' = "none"
  /\ listener' = "none"
  /\ registered' = FALSE
  /\ responded' = FALSE
  /\ status' = 0
  /\ table' = "none"
  /\ institution_map' = EmptyMap
  /\ tbody' = <<>>
  /\ headers' = <<>>
  /\ all_rows_data' = <<>>
  /\ skip' = FALSE
  /\ masterBefore' = NoFile
  /\ run_timestamp' = 0
  /\ UNCHANGED <<disk, clock>>

(* The positions of a run in the order of the statements of main,         *)
(* login_to_pagi and click_row_by_text.                                    *)
PcOrder ==
  <<"idle", "launch", "new_page",
    "login_goto", "probe", "wait_loginFrame", "fill_credentials", "submit",
    "wait_for_url", "goto_transactions", "wait_ulTabs", "submitTab", "wait_dataTable",
    "arm", "click_locate", "click_s1", "click_s2", "click_s3", "join",
    "check_status", "parse", "institution_map", "get_institution_map", "extract",
    "snapshot", "reconcile", "success", "except", "finally", "done">>

(* The state of the browser session at each position of main and           *)
(* login_to_pagi: what the statements passed so far have established       *)
(* (pagi_login.py:111-127, main.py:251-298).  "Closed": no page is open.   *)
SessionChain ==
  <<"Unauthenticated", "LoginFormVisible", "Authenticated",
    "OnSummaryPage", "OnTransactionsPage", "PreviousMonthSelected">>

SessionOf(p) ==
  CASE p \in {"login_goto", "probe", "wait_loginFrame"} -> "Unauthenticated"
    [] p \in {"fill_credentials", "submit"} -> "LoginFormVisible"
    [] p = "wait_for_url" -> "Authenticated"
    [] p \in {"goto_transactions", "wait_ulTabs"} -> "OnSummaryPage"
    [] p \in {"submitTab", "wait_dataTable"} -> "OnTransactionsPage"
    [] p \in {"arm", "click_locate", "click_s1", "click_s2", "click_s3", "join",
              "check_status", "parse", "institution_map", "get_institution_map",
              "extract", "snapshot", "reconcile", "success"} -> "PreviousMonthSelected"
    [] p = "except" -> "Failed"
    [] OTHER -> "Closed"

(* asyncio.run(main()) at the end of the script (main.py:410-411): an       *)
(* exception that leaves main ends the process with status 1, a normal     *)
(* return with status 0.  Read when the run is over (pc = "done").         *)
ExitStatus == IF exc # "none" THEN 1 ELSE 0

Next ==
  \/ StartRun
  \/ Launch
  \/ NewPage
  \/ LoginGoto
  \/ ProbeTrigger
  \/ WaitLoginFrame
  \/ FillCredentials
  \/ SubmitLogin
  \/ Navigate
  \/ Arm
  \/ ClickLocate
  \/ ClickStep1
  \/ ClickStep2
  \/ ClickStep3
  \/ ResponseArrives
  \/ ListenerTimeout
  \/ Join
  \/ CheckStatus
  \/ ParseResponse
  \/ FetchInstitutionMap
  \/ GetInstitutionMap
  \/ Extract
  \/ WriteSnapshot
  \/ ReconcileMaster
  \/ Success
  \/ Except
  \/ Finally
  \/ Exit

Spec == Init /\ [][Next]_vars

(***************************************************************************)
(* Vocabulary of the properties                                            *)
(***************************************************************************)
RowSet(seq) == {seq[i] : i \in 1..Len(seq)}

(* Rows of a master file, the header line left out. *)
MasterRows(file) == IF file = NoFile THEN <<>> ELSE Tail(file)

(* Position of the authorization-number column in this run's header. *)
AuthIdx == IndexOf(headers, AUTH_HEADER)
HasKey(r) == AuthIdx # 0 /\ Len(r) >= AuthIdx
KeyOf(r) == r[AuthIdx]

(* The run has written the master file (main.py:391-394 done). *)
MasterWritten == pc = "success" \/ logged = "success"

(* The run has been through lines 361-394, whatever the outcome. *)
ReconcileRan ==
  /\ pc \in {"success", "except", "finally", "done"}
  /\ run_timestamp # 0

(* The last extracted row carrying key k. *)
LastNew(k) ==
  LET js == {j \in 1..Len(all_rows_data) :
               HasKey(all_rows_data[j]) /\ KeyOf(all_rows_data[j]) = k}
  IN all_rows_data[CHOOSE j \in js : \A j2 \in js : j2 <= j]

NewKeys == {KeyOf(all_rows_data[j]) : j \in {i \in 1..Len(all_rows_data) : HasKey(all_rows_data[i])}}

(***************************************************************************)
(* C1: a run whose extracted header and rows are identical to those of the *)
(* run before it leaves the master file exactly as that run wrote it:      *)
(* same header line, same rows, same order, rows of one date included.     *)
(***************************************************************************)
SameInputAsPreviousRun ==
  /\ (clock - 1) \in DOMAIN snapshots
  /\ run_timestamp = clock
  /\ snapshots[clock - 1] = snapshots[clock]

C1_Idempotent ==
  /\ (MasterWritten /\ SameInputAsPreviousRun) => master = masterBefore
  /\ MasterWritten =>
       Reconcile(master, headers, all_rows_data) = [raised |-> "none", master |-> master]

C1_Witness ==
  /\ MasterWritten
  /\ SameInputAsPreviousRun
  /\ Len(MasterRows(master)) = 2
  /\ strptime(MasterRows(master)[1][1]) = strptime(MasterRows(master)[2][1])

(***************************************************************************)
(* C2: for every key carried by an extracted row, the written master holds *)
(* exactly one row with that key, it is the last extracted row with that   *)
(* key as a whole, and no different row of the earlier master with that    *)
(* key is left.                                                            *)
(***************************************************************************)
C2_LastWriteWins ==
  MasterWritten =>
    \A k \in NewKeys :
      /\ Cardinality({n \in 1..Len(MasterRows(master)) :
                        KeyOf(MasterRows(master)[n]) = k}) = 1
      /\ LastNew(k) \in RowSet(MasterRows(master))
      /\ \A r \in RowSet(MasterRows(masterBefore)) :
           (HasKey(r) /\ KeyOf(r) = k /\ r # LastNew(k))
             => r \notin RowSet(MasterRows(master))

C2_Witness ==
  /\ MasterWritten
  /\ Len(all_rows_data) = 2
  /\ \A r \in RowSet(MasterRows(masterBefore)) \cup RowSet(all_rows_data) : HasKey(r)
  /\ KeyOf(all_rows_data[1]) = KeyOf(all_rows_data[2])
  /\ all_rows_data[1] # all_rows_data[2]
  /\ \E r \in RowSet(MasterRows(masterBefore)) :
       /\ KeyOf(r) = KeyOf(all_rows_data[2])
       /\ r # all_rows_data[2]
       /\ r \notin RowSet(MasterRows(master))

(***************************************************************************)
(* C3: after a run that writes the master file its rows are in descending  *)
(* order of their first field parsed as DD/MM/YYYY; and a master holding   *)
(* A100@01/01/2024 merged with an extraction of A100@05/02/2024 and        *)
(* B200@03/02/2024 gives [A100@05/02/2024, B200@03/02/2024].               *)
(***************************************************************************)
KeyDate(r) == <<KeyOf(r), r[1]>>
KeyDates(rows) == [i \in 1..Len(rows) |-> KeyDate(rows[i])]

ScenarioC3 ==
  /\ MasterWritten
  /\ \A r \in RowSet(MasterRows(masterBefore)) \cup RowSet(all_rows_data) : HasKey(r)
  /\ KeyDates(MasterRows(masterBefore)) = << <<"A100", "01/01/2024">> >>
  /\ Len(all_rows_data) = 2
  /\ RowSet(KeyDates(all_rows_data))
       = { <<"A100", "05/02/2024">>, <<"B200", "03/02/2024">> }

C3_SortedDescending ==
  /\ MasterWritten =>
       \A i \in 1..Len(MasterRows(master)) :
         /\ strptime(MasterRows(master)[i][1]) # -1
         /\ i < Len(MasterRows(master))
              => strptime(MasterRows(master)[i][1]) >= strptime(MasterRows(master)[i + 1][1])
  /\ ScenarioC3 =>
       KeyDates(MasterRows(master))
         = << <<"A100", "05/02/2024">>, <<"B200", "03/02/2024">> >>

C3_Witness == ScenarioC3

(***************************************************************************)
(* C4: no row is silently dropped: every row of the earlier master and     *)
(* every extracted row is in the written master unless a newer extracted   *)
(* row with the same authorization number replaced it.                     *)
(***************************************************************************)
ReplacedByNewer(r) == HasKey(r) /\ KeyOf(r) \in NewKeys /\ LastNew(KeyOf(r)) # r

C4_NoRowSilentlyDropped ==
  MasterWritten =>
    \A r \in RowSet(MasterRows(masterBefore)) \cup RowSet(all_rows_data) :
      r \in RowSet(MasterRows(master)) \/ ReplacedByNewer(r)

(***************************************************************************)
(* C5: when the extracted header has no authorization-number column the    *)
(* reconciliation raises the missing-key error and the master file is      *)
(* as it was when the run started.                                         *)
(***************************************************************************)
C5_MissingKeyLeavesMaster ==
  (ReconcileRan /\ AuthIdx = 0) =>
    /\ reason = "MissingReconciliationKey"
    /\ pc = "except" => exc = "error"
    /\ pc \in {"finally", "done"} => logged = "error"
    /\ master = masterBefore

C5_Witness ==
  /\ ReconcileRan
  /\ AuthIdx = 0
  /\ pc = "done"
  /\ masterBefore # NoFile
  /\ Len(all_rows_data) > 0


(***************************************************************************)
(* C6 as stated: when the listener's timeout elapses without a matching    *)
(* response the run ends with the timeout error, nothing was parsed or     *)
(* reconciled, and the master file is as before the run.                   *)
(***************************************************************************)
NothingParsedOrWritten ==
  /\ table = "none"
  /\ headers = <<>>
  /\ run_timestamp = 0
  /\ master = masterBefore

C6_Original ==
  (pc = "done" /\ listener = "expired") =>
    (logged = "timeout" /\ NothingParsedOrWritten)

(***************************************************************************)
(* C6 amended: when the listener's timeout elapses without a matching      *)
(* response the run ends with an error, nothing was parsed or reconciled   *)
(* and the master file is as before the run; the error is the timeout      *)
(* error unless click_row_by_text itself raised a non-timeout exception,   *)
(* which is then the error reported.                                       *)
(***************************************************************************)
ClickReasons == {"ClickLocateFailed", "ClickDispatchFailed", "ClickEvaluateFailed"}

C6_TimeoutAborts ==
  (pc = "done" /\ listener = "expired") =>
    /\ logged = "timeout" \/ (logged = "error" /\ reason \in ClickReasons)
    /\ clickResult = "returned" => (logged = "timeout" /\ reason = "ResponseTimeout")
    /\ NothingParsedOrWritten

C6_Witness ==
  /\ pc = "done"
  /\ listener = "expired"
  /\ reason = "ResponseTimeout"
  /\ logged = "timeout"
  /\ masterBefore # NoFile

(***************************************************************************)
(* C7: when a row that is part of the merged dataset (the last extracted   *)
(* row of its key, or a row of the earlier master whose key was not        *)
(* extracted) has a first field that is not a DD/MM/YYYY date, the         *)
(* reconciliation fails as a whole and the master file is as before.       *)
(***************************************************************************)
EntersMerge(r) ==
  /\ HasKey(r)
  /\ \/ r \in RowSet(all_rows_data) /\ LastNew(KeyOf(r)) = r
     \/ r \in RowSet(MasterRows(masterBefore)) /\ KeyOf(r) \notin NewKeys

BadDateInMerge ==
  /\ ReconcileRan
  /\ AuthIdx # 0
  /\ \E r \in RowSet(MasterRows(masterBefore)) \cup RowSet(all_rows_data) :
       EntersMerge(r) /\ strptime(r[1]) = -1

C7_BadDateFailsWhole ==
  BadDateInMerge =>
    /\ reason = "DateParseFailure"
    /\ pc = "except" => exc = "error"
    /\ pc \in {"finally", "done"} => logged = "error"
    /\ master = masterBefore

C7_Witness ==
  /\ BadDateInMerge
  /\ pc = "done"
  /\ masterBefore # NoFile
  /\ \E r \in RowSet(all_rows_data) : EntersMerge(r) /\ strptime(r[1]) # -1

(***************************************************************************)
(* C8: with a non-empty institution map every extracted row is the row's   *)
(* cells plus exactly one institution field; the field is never empty,     *)
(* and it is the "not found" sentinel when the row has fewer than three    *)
(* cells or the last 9 characters of its third cell are not a key of the   *)
(* map.                                                                    *)
(***************************************************************************)
Extracted == pc \in {"snapshot", "reconcile", "success", "except", "finally", "done"}

ContractAbsent(cells) == Len(cells) < 3 \/ Last9(cells[3]) \notin DOMAIN institution_map

C8_NotFoundSentinel ==
  (Extracted /\ institution_map # EmptyMap) =>
    /\ Len(all_rows_data) = Len(tbody)
    /\ \A i \in 1..Len(tbody) :
         /\ Len(all_rows_data[i]) = Len(tbody[i]) + 1
         /\ SubSeq(all_rows_data[i], 1, Len(tbody[i])) = tbody[i]
         /\ all_rows_data[i][Len(tbody[i]) + 1] # ""
         /\ ContractAbsent(tbody[i]) => all_rows_data[i][Len(tbody[i]) + 1] = NOT_FOUND

C8_Witness ==
  /\ Extracted
  /\ institution_map # EmptyMap
  /\ \E i \in 1..Len(tbody) : Len(tbody[i]) < 3
  /\ \E i \in 1..Len(tbody) :
       /\ Len(tbody[i]) >= 3
       /\ ContractAbsent(tbody[i])
       /\ all_rows_data[i][4] = NOT_FOUND

(***************************************************************************)
(* C9: on a target where strategy 1 fails, strategy 2 fails and strategy 3 *)
(* succeeds, click_row_by_text attempts 1, 2, 3 in that order and returns  *)
(* normally.                                                               *)
(***************************************************************************)
ClickCallEnded == clickResult # "none" /\ target # NoTarget

C9_ClickEscalation ==
  (/\ ClickCallEnded
   /\ ~Completes(target[1])
   /\ ~Completes(target[2])
   /\ target[3] = "ok")
    => (attempts = <<1, 2, 3>> /\ clickResult = "returned")

(***************************************************************************)
(* C10 as stated: the expectation is installed before any click attempt, a *)
(* matching response that completes after the first attempt is captured,   *)
(* and the response is read only after the click primitive returned and    *)
(* the response was captured.                                              *)
(***************************************************************************)
ArmedBeforeAnyAttempt == attempts # <<>> => listener # "none"

ReadAfterBoth ==
  pc = "check_status" =>
    (clickResult = "returned" /\ listener = "captured" /\ responded)

C10_Original ==
  /\ ArmedBeforeAnyAttempt
  /\ responded => listener = "captured"
  /\ ReadAfterBoth

(***************************************************************************)
(* C10 amended: the expectation is installed before any click attempt, a   *)
(* matching response that completes after the first attempt is captured    *)
(* unless the listener's own timeout had already elapsed, and the response *)
(* is read only after the click primitive returned and the response was    *)
(* captured.                                                               *)
(***************************************************************************)
C10_ListenerArmedFirst ==
  /\ ArmedBeforeAnyAttempt
  /\ responded => listener \in {"captured", "expired"}
  /\ ReadAfterBoth

C10_Witness ==
  /\ pc = "click_s3"
  /\ attempts = <<1, 2>>
  /\ responded
  /\ listener = "captured"


(***************************************************************************)
(* C11: in every run in which the browser was launched, whichever step     *)
(* failed or if all succeeded, browser.close() has been executed exactly   *)
(* once when the run ends.                                                 *)
(***************************************************************************)
C11_BrowserClosedOnce ==
  (pc = "done" /\ browser # "none") => (browser = "closed" /\ closes = 1)

(***************************************************************************)
(* C12: a run ends either having written snapshot and master, cleanly      *)
(* (status 0), or aborted with an error that was logged (or printed as the *)
(* traceback of an uncaught exception) and a non-zero status; no run that  *)
(* stopped before writing the master ends with status 0.                   *)
(***************************************************************************)
C12_ExitOutcome ==
  pc = "done" =>
    \/ /\ logged = "success"
       /\ run_timestamp # 0
       /\ ExitStatus = 0
    \/ /\ logged \in {"timeout", "error", "halt"} \/ exc # "none"
       /\ ExitStatus # 0


(***************************************************************************)
(* C13: when the mapping is required and get_institution_map returns an    *)
(* empty map the run halts before emitting rows: no snapshot, no master    *)
(* write, master as before; rows are never emitted with a required but     *)
(* empty map.  When the caller opted out get_institution_map is never      *)
(* called and header and rows carry no institution column.                 *)
(***************************************************************************)
HaltedOnEmptyMap == logged = "halt"

(* This run has been through the extraction (main.py:324-348). *)
RowsEmitted == pc = "snapshot" \/ run_timestamp # 0

C13_EmptyMapHalts ==
  /\ HaltedOnEmptyMap =>
       /\ ~skip /\ institution_map = EmptyMap
       /\ pc \in {"finally", "done"}
       /\ headers = <<>> /\ all_rows_data = <<>>
       /\ run_timestamp = 0
       /\ master = masterBefore
  /\ (RowsEmitted /\ ~skip) => institution_map # EmptyMap
  /\ pc = "get_institution_map" => ~skip
  /\ (RowsEmitted /\ skip) =>
       /\ institution_map = EmptyMap
       /\ INSTITUTION_HEADER \notin RowSet(headers)
       /\ all_rows_data = tbody

C13_Witness ==
  /\ HaltedOnEmptyMap
  /\ pc = "done"
  /\ masterBefore # NoFile


(***************************************************************************)
(* C14: within one call of click_row_by_text, when strategy 1 completes    *)
(* neither strategy 2 nor 3 is executed, and when strategy 1 fails and     *)
(* strategy 2 completes strategy 3 is not executed.                        *)
(***************************************************************************)
C14_StopsAtFirstSuccess ==
  target # NoTarget =>
    /\ (attempts # <<>> /\ Completes(target[1])) => attempts = <<1>>
    /\ (Len(attempts) >= 2 /\ ~Completes(target[1]) /\ Completes(target[2]))
         => attempts = <<1, 2>>


(***************************************************************************)
(* C15: submit_login makes at most 5 attempts; a failed attempt is         *)
(* followed by the next attempt; the loop is left with success only by an  *)
(* attempt whose click succeeded, and after 5 failed attempts it is left   *)
(* with the login-submit failure error, never with success.                *)
(***************************************************************************)
C15_SubmitBounded ==
  [][pc = "submit" =>
       /\ attempt \in 0..MaxSubmitAttempts
       /\ pc' \in {"submit", "wait_for_url", "except"}
       /\ pc' = "submit" => (attempt < MaxSubmitAttempts /\ attempt' = attempt + 1)
       /\ pc' = "wait_for_url" => attempt < MaxSubmitAttempts
       /\ attempt >= MaxSubmitAttempts =>
            (pc' = "except" /\ exc' = "timeout" /\ reason' = "LoginSubmitFailed")]_vars

C15_Witness ==
  /\ pc = "except"
  /\ exc = "timeout"
  /\ reason = "LoginSubmitFailed"

(***************************************************************************)
(* C16: the login triggers are probed in list order starting with the      *)
(* first, one after the other; the first one clicked ends the probing; the *)
(* login container is waited for only after a trigger was clicked; when    *)
(* every candidate failed open_login_modal raises the trigger-not-found    *)
(* error and does not wait for the container.                              *)
(***************************************************************************)
C16_TriggerProbing ==
  [][/\ (pc # "probe" /\ pc' = "probe") => trigger' = 1
     /\ pc' = "wait_loginFrame" => (pc = "probe" /\ trigger \in 1..NumTriggers)
     /\ pc = "probe" =>
          /\ trigger \in 1..(NumTriggers + 1)
          /\ pc' \in {"probe", "wait_loginFrame", "except"}
          /\ pc' = "probe" => (trigger <= NumTriggers /\ trigger' = trigger + 1)
          /\ trigger > NumTriggers =>
               (pc' = "except" /\ exc' = "timeout" /\ reason' = "LoginTriggerNotFound")]_vars

C16_Witness ==
  /\ pc = "except"
  /\ exc = "timeout"
  /\ reason = "LoginTriggerNotFound"


(***************************************************************************)
(* C17: the session state advances only along Unauthenticated ->           *)
(* LoginFormVisible -> Authenticated -> OnSummaryPage -> OnTransactionsPage *)
(* -> PreviousMonthSelected, one step at a time, never back; the only      *)
(* other successor is Failed (and the closing of the browser at the end of *)
(* the run); the row click and the extraction happen only in               *)
(* PreviousMonthSelected, and credentials are filled only after the login  *)
(* container became visible.                                               *)
(***************************************************************************)
SessionRank(st) == IndexOf(SessionChain, st)

C17_SessionStateMachine ==
  [][LET a == SessionOf(pc)
         b == SessionOf(pc')
     IN /\ SessionRank(a) # 0 =>
             \/ b = a
             \/ SessionRank(b) = SessionRank(a) + 1
             \/ b = "Failed"
             \/ a = "PreviousMonthSelected" /\ b = "Closed"
        /\ a = "Failed" => b \in {"Failed", "Closed"}
        /\ a = "Closed" => b \in {"Closed", "Unauthenticated"}
        /\ (attempts' # attempts /\ attempts' # <<>>) => a = "PreviousMonthSelected"
        /\ (listener' # listener /\ listener' # "none") => a = "PreviousMonthSelected"
        /\ (all_rows_data' # all_rows_data /\ all_rows_data' # <<>>)
             => a = "PreviousMonthSelected"
        /\ pc' = "fill_credentials" => pc = "wait_loginFrame"]_vars

C17_Witness ==
  /\ SessionOf(pc) = "PreviousMonthSelected"
  /\ attempts = <<1>>
  /\ clickResult = "returned"


(***************************************************************************)
(* C18: the category reported at the top level for a failure differs from  *)
(* the category reported for every other failure point, so the report      *)
(* alone tells the failure points apart.                                   *)
(***************************************************************************)
FailedAtNamedPoint ==
  /\ pc \in {"finally", "done"}
  /\ reason \in DOMAIN ExceptionAt
  /\ logged = TopLevelReport(ExceptionAt[reason])

C18_DistinctNamedErrors ==
  FailedAtNamedPoint =>
    \A q \in DOMAIN ExceptionAt \ {reason} :
      TopLevelReport(ExceptionAt[q]) # logged


(***************************************************************************)
(* C19 as stated: within a run every step is started at most once and in   *)
(* the order of the pipeline, nothing runs and no file is written after a  *)
(* failure, and the only step that is repeated is the attempt of the       *)
(* login-submit loop (the click primitive goes once through its three      *)
(* strategies).                                                            *)
(***************************************************************************)
PcRank(p) == IndexOf(PcOrder, p)

(* The run moves on in pipeline order, or ends. *)
MovesForward ==
  pc' # pc => (PcRank(pc') > PcRank(pc) \/ (pc = "done" /\ pc' = "idle"))

(* An iteration of a loop: the same position again with its counter moved. *)
Iterates == pc' = pc /\ loginv' # loginv

NothingAfterFailure ==
  pc \in {"except", "finally", "done"} =>
    /\ pc' \in {"finally", "done", "idle"}
    /\ UNCHANGED disk

C19_Original ==
  [][/\ MovesForward
     /\ NothingAfterFailure
     /\ Iterates => pc = "submit"]_vars

(***************************************************************************)
(* C19 amended: within a run every step is started at most once and in the *)
(* order of the pipeline, nothing runs and no file is written after a      *)
(* failure, and the only repetitions are the three strategies of the click *)
(* primitive, the login-submit loop (five attempts) and the probing of the *)
(* login triggers (five candidates).                                       *)
(***************************************************************************)
C19_NoPipelineRetry ==
  [][/\ MovesForward
     /\ NothingAfterFailure
     /\ Iterates => pc \in {"submit", "probe"}]_vars

C19_Witness ==
  /\ pc = "done"
  /\ logged = "timeout"
  /\ reason = "TabBarTimeout"
  /\ master = masterBefore
  /\ run_timestamp = 0


(***************************************************************************)
(* C20: every row of the master file has as many fields as the header line *)
(* of the master file, and every row of each per-run snapshot has as many  *)
(* fields as that snapshot's header.                                       *)
(***************************************************************************)
WidthsMatch(file) ==
  \A i \in 1..Len(file) : Len(file[i]) = Len(file[1])

C20_RowWidth ==
  /\ WidthsMatch(master)
  /\ \A t \in DOMAIN snapshots : WidthsMatch(snapshots[t])


(***************************************************************************)
(* C21: the per-run snapshot is written after the authorization-number     *)
(* column was located and the merged entries were sorted, and before the   *)
(* master file; so a run that fails with the missing-key error or the      *)
(* date-parse error has written no snapshot.                               *)
(***************************************************************************)
C21_SnapshotInStepFive ==
  /\ pc \in {"snapshot", "reconcile"} => master = masterBefore
  /\ (pc \in {"except", "finally", "done"}
        /\ reason \in {"MissingReconciliationKey", "DateParseFailure"})
       => run_timestamp = 0

(***************************************************************************)
(* C22: the snapshot a run wrote holds exactly that run's header and its   *)
(* extracted rows in extraction order, and no later step and no later run  *)
(* overwrites or modifies a snapshot written earlier.                      *)
(***************************************************************************)
OwnSnapshotExact ==
  run_timestamp # 0 =>
    /\ run_timestamp \in DOMAIN snapshots
    /\ snapshots[run_timestamp] = CsvWrite(headers, all_rows_data)

SnapshotsKept ==
  \A t \in DOMAIN snapshots :
    t \in DOMAIN snapshots' /\ snapshots'[t] = snapshots[t]

C22_SnapshotsWriteOnce ==
  [][SnapshotsKept /\ (pc' # "idle" => OwnSnapshotExact')]_vars

(***************************************************************************)
(* C23: when the matched response has a status other than 200 the run      *)
(* fails with the unexpected-response-status error for that code; the body *)
(* is not parsed, get_institution_map is not called and neither a snapshot *)
(* nor the master file is written.                                         *)
(***************************************************************************)
MatchedNot200 == listener = "captured" /\ status # 200

NotParsedNothingWritten ==
  /\ pc \notin {"parse", "institution_map", "get_institution_map", "extract",
                "snapshot", "reconcile", "success"}
  /\ table = "none"
  /\ institution_map = EmptyMap
  /\ headers = <<>>
  /\ run_timestamp = 0
  /\ master = masterBefore

C23_Non200Fails ==
  MatchedNot200 =>
    /\ NotParsedNothingWritten
    /\ pc = "except" => (exc = "error" /\ reason = "UnexpectedResponseStatus")
    /\ pc \in {"finally", "done"} =>
         (logged = "error" /\ reason = "UnexpectedResponseStatus")

====
